---- MODULE Spec2Model ----
(***************************************************************************)
(* State-machine model of the WalletConnect / Stacks DAO governance        *)
(* integration: the session-request router (walletconnect-config.ts), the  *)
(* wallet service (stacks-wallet.ts) and the governance call builder       *)
(* (dao-integration.ts).                                                   *)
(*                                                                         *)
(* Conventions.  JavaScript strings that the code only compares are TLA+   *)
(* strings; strings the code takes apart (contract identifiers, amounts)   *)
(* are sequences of one-character strings; a message built by a template   *)
(* literal is the sequence of its pieces.  null and undefined are the      *)
(* reserved strings NULL and UNDEFINED, which are no address.              *)
(***************************************************************************)
EXTENDS Integers, Sequences, FiniteSets, TLC

\* ------------------------------------------------------------------ bounds

\* Number of session_request callbacks that can be in flight at once.
MaxRequests == 2

\* Longest contract identifier string handed to callContract.
MaxIdLen == 3

\* ------------------------------------------------------- values and inputs

NULL == "<null>"
UNDEFINED == "<undefined>"

\* Account strings: the empty string (falsy in JavaScript) and two accounts.
Addresses == {"", "SP1", "ST2"}

\* Session topics assigned by the transport.
Topics == {"t1", "t2"}

\* JSON-RPC ids of inbound requests.
Ids == 1..MaxRequests

\* Values Date.now() can return; nothing relates them to a request id.
TimeValues == 0..MaxRequests

\* Characters of the strings the code splits or parses.
IdChars == {"a", "."}

RECURSIVE SeqsUpTo(_, _)
SeqsUpTo(S, n) ==
  IF n = 0 THEN {<<>>}
  ELSE LET shorter == SeqsUpTo(S, n - 1)
       IN  shorter \cup {Append(s, c) : s \in {t \in shorter : Len(t) = n - 1}, c \in S}

\* Contract identifier strings tried on callContract.
\* and an identifier of three segments.
ThreeSegments == <<"a", ".", "a", ".", "a">>
ContractStrings == SeqsUpTo(IdChars, MaxIdLen) \cup {ThreeSegments}

\* amount strings of stx_transferStx: an integer literal and a decimal one.
AmountStrings == {<<"1">>, <<"1", ".", "5">>}

----------------------------------------------------------------------------
\* walletconnect-config.ts: STACKS_METHODS

STACKS_METHODS ==
  [GET_ADDRESSES |-> "stx_getAddresses",
   TRANSFER_STX |-> "stx_transferStx",
   SIGN_TRANSACTION |-> "stx_signTransaction",
   SIGN_MESSAGE |-> "stx_signMessage",
   SIGN_STRUCTURED_MESSAGE |-> "stx_signStructuredMessage",
   CALL_CONTRACT |-> "stx_callContract"]

\* The JSON-RPC error code of every error response.
ErrorCode == -32000

\* The address reported when none is connected.
DefaultAddress == "SP000000000000000000000000000000000"

----------------------------------------------------------------------------
\* JavaScript value helpers

\* !v for the string-or-null values the code tests.
Falsy(v) == v \in {NULL, UNDEFINED, ""}

\* Outcome of a call: a returned value, or a thrown value.  isError tells
\* whether the thrown value is an instance of Error.
Return(r) == [threw |-> FALSE, isError |-> FALSE, message |-> <<>>, result |-> r]
ThrowError(m) == [threw |-> TRUE, isError |-> TRUE, message |-> m, result |-> <<>>]
ThrowValue(m) == [threw |-> TRUE, isError |-> FALSE, message |-> m, result |-> <<>>]
NoOutcome == [threw |-> FALSE, isError |-> FALSE, message |-> <<>>, result |-> <<"pending">>]

\* Reading a property of undefined params.
TypeErrorUndefined == ThrowError(<<"Cannot read properties of undefined">>)

\* String.prototype.split('.'): the segments between separators.
RECURSIVE Split(_)
Split(s) ==
  IF \A i \in 1..Len(s) : s[i] # "."
  THEN <<s>>
  ELSE LET k == CHOOSE i \in 1..Len(s) : s[i] = "." /\ \A j \in 1..(i - 1) : s[j] # "."
       IN  <<SubSeq(s, 1, k - 1)>> \o Split(SubSeq(s, k + 1, Len(s)))

\* s.startsWith(prefix)
StartsWith(s, prefix) == Len(s) >= Len(prefix) /\ SubSeq(s, 1, Len(prefix)) = prefix

\* BigInt(string): succeeds on a string of decimal digits (the empty string
\* is 0n), throws a SyntaxError otherwise.
BigIntParses(s) == \A i \in 1..Len(s) : s[i] \in {"0", "1", "2", "3", "4", "5", "6", "7", "8", "9"}

----------------------------------------------------------------------------
\* stacks-wallet.ts: StacksWalletService methods, as functions of the
\* connectedAddress field at the moment of the call and of params.
\* params is a record [defined, sender, address, amount, contract, broadcast,
\* outcome]; defined = FALSE stands for params === undefined.  The methods
\* hold no await, so each runs to its outcome at the call.

AddressesResult(connected) ==
  <<"addresses", "STX", IF Falsy(connected) THEN DefaultAddress ELSE connected>>

TxResult == <<"txid", "transaction">>

transferSTX(connected, params) ==
  IF Falsy(connected) THEN ThrowError(<<"No wallet connected">>)
  ELSE IF ~params.defined THEN TypeErrorUndefined
  ELSE IF params.sender # connected
    THEN ThrowError(<<"Sender address does not match connected wallet">>)
  ELSE IF ~BigIntParses(params.amount)
    THEN ThrowError(<<"Cannot convert to a BigInt">>)
  ELSE Return(TxResult)

\* signTransaction without its connected-address guard.
signTransactionUnguarded(connected, params) ==
  IF ~params.defined THEN TypeErrorUndefined
  ELSE Return(IF params.broadcast THEN <<"signature", "transaction", "txid">>
                                  ELSE <<"signature", "transaction">>)

signTransaction(connected, params) ==
  IF Falsy(connected) THEN ThrowError(<<"No wallet connected">>)
  ELSE IF ~params.defined THEN TypeErrorUndefined
  ELSE Return(IF params.broadcast THEN <<"signature", "transaction", "txid">>
                                  ELSE <<"signature", "transaction">>)

signMessage(connected, params) ==
  IF Falsy(connected) THEN ThrowError(<<"No wallet connected">>)
  ELSE IF ~params.defined THEN TypeErrorUndefined
  ELSE IF params.address # connected
    THEN ThrowError(<<"Address does not match connected wallet">>)
  ELSE Return(<<"signature", "publicKey">>)

\* const [contractAddress, contractName] = params.contract.split('.')
ContractAddressOf(contract) == Split(contract)[1]
ContractNameOf(contract) ==
  IF Len(Split(contract)) >= 2 THEN Split(contract)[2] ELSE <<>>

\* callContract testing the address segment only.
callContractAddressOnly(connected, params) ==
  IF Falsy(connected) THEN ThrowError(<<"No wallet connected">>)
  ELSE IF ~params.defined THEN TypeErrorUndefined
  ELSE IF ContractAddressOf(params.contract) = <<>>
    THEN ThrowError(<<"Invalid contract identifier. Expected format: address.contract-name">>)
  ELSE Return(TxResult)

callContract(connected, params) ==
  IF Falsy(connected) THEN ThrowError(<<"No wallet connected">>)
  ELSE IF ~params.defined THEN TypeErrorUndefined
  ELSE IF ContractAddressOf(params.contract) = <<>> \/ ContractNameOf(params.contract) = <<>>
    THEN ThrowError(<<"Invalid contract identifier. Expected format: address.contract-name">>)
  ELSE Return(TxResult)

----------------------------------------------------------------------------
\* stacks-wallet.ts: createRequestHandlers, the handler table of the wallet.

createRequestHandlers ==
  {STACKS_METHODS.GET_ADDRESSES, STACKS_METHODS.TRANSFER_STX,
   STACKS_METHODS.SIGN_TRANSACTION, STACKS_METHODS.SIGN_MESSAGE,
   STACKS_METHODS.CALL_CONTRACT}

\* A handler registered by the application next to the wallet's: the table
\* parameter of createSessionRequestHandler admits any async function.  Its
\* body is an external collaborator; params.outcome tells how it settles.
ExternalMethod == "ext_oracle"

\* The handler table handed to createSessionRequestHandler.
requestHandlers == createRequestHandlers \cup {ExternalMethod}

\* Members every object literal inherits from Object.prototype: a function
\* and a non-function value, both truthy.
InheritedFunctions == {"toString"}
InheritedObjects == {"__proto__"}

\* requestHandlers[method]: what the property read yields.
Lookup(method) ==
  IF method \in requestHandlers THEN "own"
  ELSE IF method \in InheritedFunctions THEN "inheritedFunction"
  ELSE IF method \in InheritedObjects THEN "inheritedObject"
  ELSE "absent"

\* requestHandlers[method](methodParams) for a callable entry: the handler's
\* outcome, given the wallet's connectedAddress at the call.
InvokeHandler(method, connected, params) ==
  CASE method = STACKS_METHODS.GET_ADDRESSES -> Return(AddressesResult(connected))
    [] method = STACKS_METHODS.TRANSFER_STX -> transferSTX(connected, params)
    [] method = STACKS_METHODS.SIGN_TRANSACTION -> signTransaction(connected, params)
    [] method = STACKS_METHODS.SIGN_MESSAGE -> signMessage(connected, params)
    [] method = STACKS_METHODS.CALL_CONTRACT -> callContract(connected, params)
    [] method = ExternalMethod ->
         CASE params.outcome = "return" -> Return(<<"oracle value">>)
           [] params.outcome = "throwError" -> ThrowError(<<"oracle unavailable">>)
           [] OTHER -> ThrowValue(<<"oracle unavailable">>)
    [] OTHER -> Return(<<"[object Object]">>)   \* Object.prototype.toString

\* Method names the transport may deliver.
MethodNames ==
  {STACKS_METHODS[k] : k \in DOMAIN STACKS_METHODS}
    \cup {ExternalMethod, "stx_unknownMethod"} \cup InheritedFunctions \cup InheritedObjects

BaseParams ==
  [defined |-> TRUE, sender |-> UNDEFINED, address |-> UNDEFINED, amount |-> <<>>,
   contract |-> <<>>, broadcast |-> FALSE, outcome |-> "return"]

UndefinedParams == [BaseParams EXCEPT !.defined = FALSE]

\* Every params value tried for a method.
ParamsFor(method) ==
  CASE method = STACKS_METHODS.TRANSFER_STX ->
         {[BaseParams EXCEPT !.sender = s, !.amount = a] : s \in Addresses, a \in AmountStrings}
           \cup {UndefinedParams}
    [] method = STACKS_METHODS.SIGN_TRANSACTION ->
         {[BaseParams EXCEPT !.broadcast = b] : b \in BOOLEAN} \cup {UndefinedParams}
    [] method = STACKS_METHODS.SIGN_MESSAGE ->
         {[BaseParams EXCEPT !.address = s] : s \in Addresses} \cup {UndefinedParams}
    [] method = STACKS_METHODS.CALL_CONTRACT ->
         {[BaseParams EXCEPT !.contract = c, !.sender = s] :
            c \in ContractStrings, s \in {UNDEFINED, "ST2"}} \cup {UndefinedParams}
    [] method = ExternalMethod ->
         {[BaseParams EXCEPT !.outcome = o] : o \in {"return", "throwError", "throwValue"}}
    [] OTHER -> {BaseParams}

\* One params value per handler path, for runs with several requests in flight.
FewParamsFor(method) ==
  CASE method = STACKS_METHODS.TRANSFER_STX ->
         {[BaseParams EXCEPT !.sender = "SP1", !.amount = <<"1">>]}
    [] method = STACKS_METHODS.SIGN_TRANSACTION -> {BaseParams}
    [] method = STACKS_METHODS.SIGN_MESSAGE -> {[BaseParams EXCEPT !.address = "SP1"]}
    [] method = STACKS_METHODS.CALL_CONTRACT ->
         {[BaseParams EXCEPT !.contract = <<"a", ".", "a">>, !.sender = "ST2"]}
    [] OTHER -> ParamsFor(method)

----------------------------------------------------------------------------
\* State

VARIABLES
  connectedAddress,  \* StacksWalletService.connectedAddress, per service instance
  requests,          \* the session_request callbacks: one record per slot
  directResponse,    \* the last respondSessionRequest made by getAddresses(topic)
  deletedTopics,     \* topics for which session_delete was delivered
  daoWallet,         \* the wallet instance DAOGovernanceService holds
  lastOp,            \* the last governance operation and what it did
  proposal           \* the session_proposal callback and its callbacks

vars ==
  <<connectedAddress, requests, directResponse, deletedTopics, daoWallet, lastOp, proposal>>

\* The wallet service of initializeApp, and the one createDAOGovernanceService
\* constructs for itself.
WalletIds == {"walletService", "daoWalletService"}

Slots == 1..MaxRequests

IdleRequest ==
  [pc |-> "idle", topic |-> "", id |-> 0, method |-> "", params |-> BaseParams,
   connected |-> NULL, lookup |-> "absent", invoked |-> FALSE, outcome |-> NoOutcome,
   afterDelete |-> FALSE, sent |-> <<>>]

NoResponse ==
  [topic |-> "", id |-> 0, kind |-> "none", code |-> 0, message |-> <<>>, result |-> <<>>]

Finished(r) == r.pc \in {"idle", "responded", "rejected"}

----------------------------------------------------------------------------
\* walletconnect-config.ts: createSessionRequestHandler

\* The success response of lines 151-158.
SuccessResponse(event, result) ==
  [topic |-> event.topic, id |-> event.id, kind |-> "result", code |-> 0,
   message |-> <<>>, result |-> result]

\* An error response that drops the caught error's message.
ErrorResponseUnknown(event, error) ==
  [topic |-> event.topic, id |-> event.id, kind |-> "error", code |-> ErrorCode,
   message |-> <<"Unknown error">>, result |-> <<>>]

\* The error response of lines 165-175.
ErrorResponse(event, error) ==
  [topic |-> event.topic, id |-> event.id, kind |-> "error", code |-> ErrorCode,
   message |-> IF error.isError THEN error.message ELSE <<"Unknown error">>,
   result |-> <<>>]

\* throw new Error(`Unsupported method: ${method}`)
UnsupportedMethod(method) == ThrowError(<<"Unsupported method: ", method>>)

\* Calling a property value that is no function.
NotAFunction == ThrowError(<<"requestHandlers[method] is not a function">>)

\* What walletKit.respondSessionRequest throws when the transport fails.
TransportError == ThrowError(<<"respondSessionRequest failed">>)

\* The session_request callback up to its first await (lines 139-151, and
\* 160-165 when nothing callable is found).  A callable entry is invoked and
\* the callback awaits its promise; otherwise the throw lands in the catch
\* block, which calls respondSessionRequest with the error at once.
SessionRequest(i, topic, id, method, params) ==
  /\ Finished(requests[i])
  /\ \A j \in Slots \ {i} : requests[j].id # id
  /\ LET event == [topic |-> topic, id |-> id]
         connected == connectedAddress["walletService"]
         lookup == Lookup(method)
         callable == lookup \in {"own", "inheritedFunction"}
         failure == IF lookup = "absent" THEN UnsupportedMethod(method) ELSE NotAFunction
         arrived == [IdleRequest EXCEPT
                       !.topic = topic, !.id = id, !.method = method, !.params = params,
                       !.connected = connected, !.lookup = lookup,
                       !.afterDelete = (topic \in deletedTopics)]
     IN  requests' =
           [requests EXCEPT ![i] =
              IF callable
              THEN [arrived EXCEPT !.pc = "awaitHandler", !.invoked = TRUE,
                                   !.outcome = InvokeHandler(method, connected, params)]
              ELSE [arrived EXCEPT !.pc = "awaitErrorRespond", !.outcome = failure,
                                   !.sent = <<ErrorResponse(event, failure)>>]]
  /\ UNCHANGED <<connectedAddress, directResponse, deletedTopics, daoWallet, lastOp, proposal>>

\* The handler's promise settles (line 149): a result goes out as a success
\* response (151-158), a rejection is caught and goes out as an error
\* response (162-175).
HandlerSettles(i) ==
  /\ requests[i].pc = "awaitHandler"
  /\ LET r == requests[i]
     IN  requests' =
           [requests EXCEPT ![i] =
              IF r.outcome.threw
              THEN [r EXCEPT !.pc = "awaitErrorRespond",
                             !.sent = Append(r.sent, ErrorResponse(r, r.outcome))]
              ELSE [r EXCEPT !.pc = "awaitSuccessRespond",
                             !.sent = Append(r.sent, SuccessResponse(r, r.outcome.result))]]
  /\ UNCHANGED <<connectedAddress, directResponse, deletedTopics, daoWallet, lastOp, proposal>>

\* The transport accepts the response: the callback returns.
RespondResolves(i) ==
  /\ requests[i].pc \in {"awaitSuccessRespond", "awaitErrorRespond"}
  /\ requests' = [requests EXCEPT ![i].pc = "responded"]
  /\ UNCHANGED <<connectedAddress, directResponse, deletedTopics, daoWallet, lastOp, proposal>>

\* respondSessionRequest rejects inside the try block (line 151): the catch
\* block calls it again with an error response for the same request.
SuccessRespondRejects(i) ==
  /\ requests[i].pc = "awaitSuccessRespond"
  /\ requests' =
       [requests EXCEPT ![i] =
          [@ EXCEPT !.pc = "awaitErrorRespond",
                    !.sent = Append(@, ErrorResponse(requests[i], TransportError))]]
  /\ UNCHANGED <<connectedAddress, directResponse, deletedTopics, daoWallet, lastOp, proposal>>

\* respondSessionRequest rejects inside the catch block (line 165): nothing
\* catches it, the callback's promise rejects.
ErrorRespondRejects(i) ==
  /\ requests[i].pc = "awaitErrorRespond"
  /\ requests' = [requests EXCEPT ![i].pc = "rejected"]
  /\ UNCHANGED <<connectedAddress, directResponse, deletedTopics, daoWallet, lastOp, proposal>>

\* walletconnect-config.ts: createSessionDeleteHandler.  The callback logs
\* and notifies onDisconnect; it keeps no record of the topic.  deletedTopics
\* records the notification for the properties below.
SessionDelete(topic) ==
  /\ topic \notin deletedTopics
  /\ deletedTopics' = deletedTopics \cup {topic}
  /\ UNCHANGED <<connectedAddress, requests, directResponse, daoWallet, lastOp, proposal>>

----------------------------------------------------------------------------
\* stacks-wallet.ts: the wallet service's own API

setConnectedAddress(w, address) ==
  /\ connectedAddress[w] # address
  /\ connectedAddress' = [connectedAddress EXCEPT ![w] = address]
  /\ UNCHANGED <<requests, directResponse, deletedTopics, daoWallet, lastOp, proposal>>

\* The response getAddresses(topic) passes to respondSessionRequest.
GetAddressesResponse(topic, now, connected) ==
  [topic |-> topic, id |-> now, kind |-> "result", code |-> 0, message |-> <<>>,
   result |-> AddressesResult(connected)]

\* getAddresses(topic), with Date.now() = now.
getAddresses(w, topic, now) ==
  /\ directResponse' = GetAddressesResponse(topic, now, connectedAddress[w])
  /\ directResponse' # directResponse
  /\ UNCHANGED <<connectedAddress, requests, deletedTopics, daoWallet, lastOp, proposal>>

----------------------------------------------------------------------------
\* walletconnect-config.ts: createSessionProposalHandler

STACKS_EVENTS == [ACCOUNTS_CHANGED |-> "accountsChanged", CHAIN_CHANGED |-> "chainChanged"]

\* Object.values(STACKS_METHODS) and Object.values(STACKS_EVENTS)
AllMethods ==
  <<STACKS_METHODS.GET_ADDRESSES, STACKS_METHODS.TRANSFER_STX,
    STACKS_METHODS.SIGN_TRANSACTION, STACKS_METHODS.SIGN_MESSAGE,
    STACKS_METHODS.SIGN_STRUCTURED_MESSAGE, STACKS_METHODS.CALL_CONTRACT>>
AllEvents == <<STACKS_EVENTS.ACCOUNTS_CHANGED, STACKS_EVENTS.CHAIN_CHANGED>>

\* An optional array property: absent, or present with its items.
Absent == [present |-> FALSE, items |-> <<>>]
List(items) == [present |-> TRUE, items |-> items]

\* Namespace keys of a proposal, as character sequences: the stacks family,
\* a family whose name begins with the same letters, and another family.
StacksKey == <<"s", "t", "a", "c", "k", "s">>
NamespaceKeys == {StacksKey, <<"s", "t", "a", "c", "k", "s", "x">>, <<"e", "i", "p", "1", "5", "5">>}

\* Largest number of namespaces in one proposal.
MaxNamespaces == 2

\* The capability sets a proposal asks for under one key.
NamespaceChoices ==
  {[chains |-> List(<<"stacks:testnet", "stacks:mainnet">>), methods |-> m, events |-> e] :
     m \in {Absent, List(<<>>), List(<<"stx_signMessage">>)},
     e \in {Absent, List(<<>>), List(<<"accountsChanged">>)}}
    \cup {[chains |-> Absent, methods |-> Absent, events |-> Absent]}

\* proposal.params.requiredNamespaces
RequiredNamespaces ==
  UNION {[K -> NamespaceChoices] :
           K \in {S \in SUBSET NamespaceKeys : Cardinality(S) <= MaxNamespaces}}

\* How the optional callbacks behave: not supplied, returning, throwing an
\* Error.
CallbackChoices ==
  {[onApprove |-> a, onReject |-> r] :
     a \in {"absent", "returns", "throws"}, r \in {"absent", "returns", "throws"}}

\* The callbacks initializeApp supplies: both only log.
AppCallbacks == [onApprove |-> "returns", onReject |-> "returns"]

\* namespace.chains?.map((chain) => `${chain}:YOUR_STACKS_ADDRESS`) || []
ApprovedAccounts(namespace) ==
  [i \in 1..Len(namespace.chains.items) |->
     <<namespace.chains.items[i], ":", "YOUR_STACKS_ADDRESS">>]

\* namespace.methods || Object.values(STACKS_METHODS): an array, even an
\* empty one, is truthy.
ApprovedMethods(namespace) ==
  IF namespace.methods.present THEN namespace.methods.items ELSE AllMethods

\* namespace.events || Object.values(STACKS_EVENTS)
ApprovedEvents(namespace) ==
  IF namespace.events.present THEN namespace.events.items ELSE AllEvents

\* key.startsWith('stacks')
KeyApproved(key) == StartsWith(key, StacksKey)

\* The approvedNamespaces built by the loop of lines 98-108.
ApprovedNamespaces(required) ==
  [key \in {k \in DOMAIN required : KeyApproved(k)} |->
     [accounts |-> ApprovedAccounts(required[key]),
      methods |-> ApprovedMethods(required[key]),
      events |-> ApprovedEvents(required[key])]]

NoNamespaces == [key \in {} |-> Absent]

IdleProposal(callbacks) ==
  [pc |-> "idle", callbacks |-> callbacks, required |-> NoNamespaces,
   approved |-> NoNamespaces, connected |-> NULL, approveCalls |-> 0,
   approveOutcome |-> "none", onApproveCalls |-> 0, onRejectCalls |-> 0,
   raised |-> "none"]

\* The catch block without its instanceof test: onReject is called with
\* whatever was caught.
CaughtAnyValue(p, isError, what) ==
  LET calls == p.callbacks.onReject # "absent"
  IN  [p EXCEPT !.pc = "threw",
                !.onRejectCalls = IF calls THEN @ + 1 ELSE @,
                !.raised = IF calls /\ p.callbacks.onReject = "throws"
                           THEN "onRejectError" ELSE what]

\* What the catch block of lines 120-126 does with a caught value: onReject
\* is called when supplied and the value is an Error; the value is thrown
\* again, unless onReject throws first.
Caught(p, isError, what) ==
  LET calls == p.callbacks.onReject # "absent" /\ isError
  IN  [p EXCEPT !.pc = "threw",
                !.onRejectCalls = IF calls THEN @ + 1 ELSE @,
                !.raised = IF calls /\ p.callbacks.onReject = "throws"
                           THEN "onRejectError" ELSE what]

\* The session_proposal callback up to its await (lines 87-113): the
\* namespaces are built and handed to approveSession.
SessionProposal(required) ==
  /\ proposal.pc = "idle"
  /\ proposal' = [proposal EXCEPT
                    !.pc = "awaitApprove", !.required = required,
                    !.approved = ApprovedNamespaces(required),
                    !.connected = connectedAddress["walletService"],
                    !.approveCalls = @ + 1]
  /\ UNCHANGED <<connectedAddress, requests, directResponse, deletedTopics, daoWallet, lastOp>>

\* approveSession resolves (lines 115-119): onApprove is called when
\* supplied; what it throws is caught like a failed approval.
ApproveResolves ==
  /\ proposal.pc = "awaitApprove"
  /\ LET p == [proposal EXCEPT !.approveOutcome = "resolved"]
     IN  proposal' =
           CASE p.callbacks.onApprove = "absent" -> [p EXCEPT !.pc = "returned"]
             [] p.callbacks.onApprove = "returns" ->
                  [p EXCEPT !.pc = "returned", !.onApproveCalls = @ + 1]
             [] OTHER -> Caught([p EXCEPT !.onApproveCalls = @ + 1], TRUE, "onApproveError")
  /\ UNCHANGED <<connectedAddress, requests, directResponse, deletedTopics, daoWallet, lastOp>>

\* approveSession rejects, with an Error or with another value.
ApproveRejects(isError) ==
  /\ proposal.pc = "awaitApprove"
  /\ proposal' =
       Caught([proposal EXCEPT !.approveOutcome = IF isError THEN "rejectedError"
                                                  ELSE "rejectedValue"],
              isError, "transportError")
  /\ UNCHANGED <<connectedAddress, requests, directResponse, deletedTopics, daoWallet, lastOp>>

----------------------------------------------------------------------------
\* JavaScript numbers the governance operations format.  A number is the
\* decimal m * 10^(-e), e >= 0.

Num(m, e) == [m |-> m, e |-> e]

RECURSIVE Pow10(_)
Pow10(k) == IF k = 0 THEN 1 ELSE 10 * Pow10(k - 1)

\* x * 1_000_000
TimesMillion(x) ==
  IF x.e >= 6 THEN Num(x.m, x.e - 6) ELSE Num(x.m * Pow10(6 - x.e), 0)

DigitChar(d) == <<"0", "1", "2", "3", "4", "5", "6", "7", "8", "9">>[d + 1]

RECURSIVE Digits(_)
Digits(n) == IF n < 10 THEN <<DigitChar(n)>> ELSE Append(Digits(n \div 10), DigitChar(n % 10))

RECURSIVE Normalize(_)
Normalize(x) ==
  IF x.e > 0 /\ x.m % 10 = 0 THEN Normalize(Num(x.m \div 10, x.e - 1)) ELSE x

RECURSIVE PadLeft(_, _)
PadLeft(s, n) == IF Len(s) >= n THEN s ELSE PadLeft(<<"0">> \o s, n)

\* Number.prototype.toString(): decimal notation, no trailing zeros.
NumberToString(x) ==
  LET n == Normalize(x)
      a == IF n.m < 0 THEN 0 - n.m ELSE n.m
      sign == IF n.m < 0 THEN <<"-">> ELSE <<>>
  IN  IF n.e = 0 THEN sign \o Digits(a)
      ELSE sign \o Digits(a \div Pow10(n.e)) \o <<".">> \o PadLeft(Digits(a % Pow10(n.e)), n.e)

\* stacks-wallet.ts: STXToMicroSTX
STXToMicroSTX(stx) == NumberToString(TimesMillion(stx))

----------------------------------------------------------------------------
\* dao-integration.ts: DAOGovernanceService

\* DAOConfig values a service is constructed with.
DaoConfigs ==
  {[contractAddress |-> <<"a">>, contractName |-> <<"a">>, network |-> "testnet"],
   [contractAddress |-> <<"a">>, contractName |-> <<>>, network |-> "mainnet"]}

\* The identifier joined without its separator.
getContractIdentifierUnseparated(config) == config.contractAddress \o config.contractName

getContractIdentifier(config) == config.contractAddress \o <<".">> \o config.contractName

GovernanceOperations ==
  {"createProposal", "vote", "executeProposal", "cancelProposal", "depositToTreasury",
   "addMember", "removeMember", "updateVotingPower"}

NoCall ==
  [defined |-> FALSE, contract |-> <<>>, functionName |-> "", functionArgs |-> <<>>,
   sender |-> NULL, network |-> ""]

\* this.walletService.callContract({...}): the descriptor handed over and the
\* outcome of callContract on the same wallet instance.
\* A builder that numbers its calls: after a first call, the descriptor
\* carries one more argument.
CallThroughNumbered(connected, config, functionName, functionArgs) ==
  LET call == [defined |-> TRUE, contract |-> getContractIdentifier(config),
               functionName |-> functionName,
               functionArgs |-> IF lastOp.called THEN Append(functionArgs, <<"u", "1">>)
                                ELSE functionArgs,
               sender |-> connected, network |-> config.network]
  IN  [called |-> TRUE, call |-> call, outcome |-> callContract(connected, call)]

CallThrough(connected, config, functionName, functionArgs) ==
  LET call == [defined |-> TRUE, contract |-> getContractIdentifier(config),
               functionName |-> functionName, functionArgs |-> functionArgs,
               sender |-> connected, network |-> config.network]
  IN  [called |-> TRUE, call |-> call, outcome |-> callContract(connected, call)]

NoWalletConnected ==
  [called |-> FALSE, call |-> NoCall, outcome |-> ThrowError(<<"No wallet connected">>)]

\* Literals of the argument kinds, as the template strings build them.
UintArg(digits) == <<"u">> \o digits
PrincipalArg(address) == <<"'", address>>
AsciiArg(text) == <<"\"", text, "\"">>
BoolArg(b) == IF b THEN <<"true">> ELSE <<"false">>

createProposal(connected, config, p) ==
  IF Falsy(connected) THEN NoWalletConnected
  ELSE CallThrough(connected, config, "create-proposal",
         <<AsciiArg(p.title), AsciiArg(p.description), PrincipalArg(p.recipient),
           UintArg(STXToMicroSTX(p.amountSTX))>>)

\* vote with its two arguments in the other order.
voteSwapped(connected, config, p) ==
  IF Falsy(connected) THEN NoWalletConnected
  ELSE CallThrough(connected, config, "vote",
         <<BoolArg(p.support), UintArg(NumberToString(p.proposalId))>>)

vote(connected, config, p) ==
  IF Falsy(connected) THEN NoWalletConnected
  ELSE CallThrough(connected, config, "vote",
         <<UintArg(NumberToString(p.proposalId)), BoolArg(p.support)>>)

executeProposal(connected, config, p) ==
  IF Falsy(connected) THEN NoWalletConnected
  ELSE CallThrough(connected, config, "execute-proposal",
         <<UintArg(NumberToString(p.proposalId))>>)

cancelProposal(connected, config, p) ==
  IF Falsy(connected) THEN NoWalletConnected
  ELSE CallThrough(connected, config, "cancel-proposal",
         <<UintArg(NumberToString(p.proposalId))>>)

depositToTreasury(connected, config, p) ==
  IF Falsy(connected) THEN NoWalletConnected
  ELSE CallThrough(connected, config, "deposit-to-treasury",
         <<UintArg(STXToMicroSTX(p.amountSTX))>>)

addMember(connected, config, p) ==
  IF Falsy(connected) THEN NoWalletConnected
  ELSE CallThrough(connected, config, "add-member", <<PrincipalArg(p.memberAddress)>>)

removeMember(connected, config, p) ==
  IF Falsy(connected) THEN NoWalletConnected
  ELSE CallThrough(connected, config, "remove-member", <<PrincipalArg(p.memberAddress)>>)

\* updateVotingPower relying on callContract's own guard.
updateVotingPowerUnguarded(connected, config, p) ==
  CallThrough(connected, config, "update-voting-power",
    <<PrincipalArg(p.memberAddress), UintArg(NumberToString(p.newPower))>>)

updateVotingPower(connected, config, p) ==
  IF Falsy(connected) THEN NoWalletConnected
  ELSE CallThrough(connected, config, "update-voting-power",
         <<PrincipalArg(p.memberAddress), UintArg(NumberToString(p.newPower))>>)

\* Numbers passed as amountSTX, proposalId and newPower: 1, 100, 1.5, -1 and
\* 0.0000015.
NumberValues == {Num(1, 0), Num(100, 0), Num(15, 1), Num(-1, 0), Num(15, 7)}

\* Titles and descriptions, as character sequences; "U+00E9" stands for the
\* one non-ASCII character e-acute.
TitleStrings == {<<"F", "u", "n", "d">>, <<>>, <<"F", "U+00E9">>}

\* A 41-character testnet address (the recipient of exampleCreateProposal).
ExampleRecipient == "ST2CY5V39NHDPWSXMW9QDT3HC3GD6Q6XX4CFRK9AG"

\* Strings passed as recipient and memberAddress.
PrincipalStrings == {"", "ST2", ExampleRecipient}

\* The characters of the address strings above.
Chars(a) ==
  CASE a = "" -> <<>>
    [] a = "SP1" -> <<"S", "P", "1">>
    [] a = "ST2" -> <<"S", "T", "2">>
    [] a = ExampleRecipient ->
         <<"S", "T", "2", "C", "Y", "5", "V", "3", "9", "N", "H", "D", "P", "W", "S", "X", "M", "W", "9", "Q", "D", "T", "3", "H", "C", "3", "G", "D", "6", "Q", "6", "X", "X", "4", "C", "F", "R", "K", "9", "A", "G">>

\* stacks-wallet.ts: isValidStacksAddress
isValidStacksAddress(address, network) ==
  IF network = "mainnet"
  THEN StartsWith(Chars(address), <<"S", "P">>) /\ Len(Chars(address)) = 41
  ELSE StartsWith(Chars(address), <<"S", "T">>) /\ Len(Chars(address)) = 41

BaseOpParams ==
  [title |-> <<>>, description |-> <<>>, recipient |-> "", amountSTX |-> Num(0, 0),
   proposalId |-> Num(0, 0), support |-> FALSE, memberAddress |-> "", newPower |-> Num(0, 0)]

\* Every parameter tuple tried for a governance operation.
OpParamsFor(op) ==
  CASE op = "createProposal" ->
         {[BaseOpParams EXCEPT !.title = t, !.description = <<"d">>, !.recipient = r,
                               !.amountSTX = n] :
            t \in TitleStrings, r \in PrincipalStrings, n \in NumberValues}
    [] op = "vote" ->
         {[BaseOpParams EXCEPT !.proposalId = n, !.support = b] :
            n \in NumberValues, b \in BOOLEAN}
    [] op \in {"executeProposal", "cancelProposal"} ->
         {[BaseOpParams EXCEPT !.proposalId = n] : n \in NumberValues}
    [] op = "depositToTreasury" ->
         {[BaseOpParams EXCEPT !.amountSTX = n] : n \in NumberValues}
    [] op \in {"addMember", "removeMember"} ->
         {[BaseOpParams EXCEPT !.memberAddress = a] : a \in PrincipalStrings}
    [] OTHER ->
         {[BaseOpParams EXCEPT !.memberAddress = a, !.newPower = n] :
            a \in {"", ExampleRecipient}, n \in NumberValues}

\* One parameter tuple for each governance operation.
FewOpParamsFor(op) ==
  CASE op = "createProposal" ->
         {[BaseOpParams EXCEPT !.title = <<"F", "u", "n", "d">>, !.description = <<"d">>,
                               !.recipient = ExampleRecipient, !.amountSTX = Num(100, 0)]}
    [] op \in {"vote", "executeProposal", "cancelProposal"} ->
         {[BaseOpParams EXCEPT !.proposalId = Num(1, 0), !.support = TRUE]}
    [] op = "depositToTreasury" -> {[BaseOpParams EXCEPT !.amountSTX = Num(15, 1)]}
    [] op \in {"addMember", "removeMember"} ->
         {[BaseOpParams EXCEPT !.memberAddress = ExampleRecipient]}
    [] OTHER ->
         {[BaseOpParams EXCEPT !.memberAddress = ExampleRecipient, !.newPower = Num(1, 0)]}

NoOp ==
  [op |-> "none", params |-> BaseOpParams, connected |-> NULL, appConnected |-> NULL,
   called |-> FALSE,
   call |-> NoCall, outcome |-> NoOutcome, repeated |-> FALSE, sameCall |-> FALSE]

\* The operation's method, by name.
Operation(op, connected, config, p) ==
  CASE op = "createProposal" -> createProposal(connected, config, p)
    [] op = "vote" -> vote(connected, config, p)
    [] op = "executeProposal" -> executeProposal(connected, config, p)
    [] op = "cancelProposal" -> cancelProposal(connected, config, p)
    [] op = "depositToTreasury" -> depositToTreasury(connected, config, p)
    [] op = "addMember" -> addMember(connected, config, p)
    [] op = "removeMember" -> removeMember(connected, config, p)
    [] OTHER -> updateVotingPower(connected, config, p)

\* A governance operation that disconnects the wallet it used.
GovernanceDisconnecting(op, p) ==
  /\ LET connected == connectedAddress[daoWallet.wallet]
         done == Operation(op, connected, daoWallet.config, p)
     IN  lastOp' = [op |-> op, params |-> p, connected |-> connected,
                    appConnected |-> connectedAddress["walletService"],
                    called |-> done.called, call |-> done.call, outcome |-> done.outcome,
                    repeated |-> /\ op = lastOp.op
                                 /\ p = lastOp.params
                                 /\ connected = lastOp.connected,
                    sameCall |-> lastOp.called = done.called /\ lastOp.call = done.call]
  /\ lastOp' # lastOp
  /\ connectedAddress' = [connectedAddress EXCEPT ![daoWallet.wallet] = NULL]
  /\ UNCHANGED <<requests, directResponse, deletedTopics, daoWallet, proposal>>

\* A governance operation invoked on the service.  getConnectedAddress and
\* callContract read the same wallet instance with no await in between.
\* repeated records that the invocation before this one had the same
\* operation, parameters and connected address, sameCall that it handed
\* callContract the same descriptor.
Governance(op, p) ==
  /\ LET connected == connectedAddress[daoWallet.wallet]
         done == Operation(op, connected, daoWallet.config, p)
     IN  lastOp' = [op |-> op, params |-> p, connected |-> connected,
                    appConnected |-> connectedAddress["walletService"],
                    called |-> done.called, call |-> done.call, outcome |-> done.outcome,
                    repeated |-> /\ op = lastOp.op
                                 /\ p = lastOp.params
                                 /\ connected = lastOp.connected,
                    sameCall |-> lastOp.called = done.called /\ lastOp.call = done.call]
  /\ lastOp' # lastOp
  /\ UNCHANGED <<connectedAddress, requests, directResponse, deletedTopics, daoWallet, proposal>>

----------------------------------------------------------------------------
\* Specifications

\* The DAOConfig of initializeApp (a well-formed address and name).
AppConfig == [contractAddress |-> <<"a">>, contractName |-> <<"a">>, network |-> "testnet"]

\* After initializeApp: no address connected, nothing received, and the
\* governance service holds the wallet service createDAOGovernanceService
\* constructed for it.
Init ==
  /\ connectedAddress = [w \in WalletIds |-> NULL]
  /\ requests = [i \in Slots |-> IdleRequest]
  /\ directResponse = NoResponse
  /\ deletedTopics = {}
  /\ daoWallet = [wallet |-> "daoWalletService", config |-> AppConfig]
  /\ lastOp = NoOp
  /\ proposal = IdleProposal(AppCallbacks)

\* The router with several requests in flight.
Next ==
  \/ \E i \in Slots, topic \in Topics, id \in Ids, method \in MethodNames :
       \E params \in FewParamsFor(method) : SessionRequest(i, topic, id, method, params)
  \/ \E i \in Slots : HandlerSettles(i)
  \/ \E i \in Slots : RespondResolves(i)
  \/ \E i \in Slots : SuccessRespondRejects(i)
  \/ \E i \in Slots : ErrorRespondRejects(i)
  \/ \E address \in {"SP1"} : setConnectedAddress("walletService", address)

Spec == Init /\ [][Next]_vars

\* The router serving one request at a time (slot 1, request id 1), with
\* every params value.
NextSerial ==
  \/ \E topic \in Topics, method \in MethodNames :
       \E params \in ParamsFor(method) : SessionRequest(1, topic, 1, method, params)
  \/ HandlerSettles(1)
  \/ RespondResolves(1)
  \/ SuccessRespondRejects(1)
  \/ ErrorRespondRejects(1)
  \/ \E address \in Addresses : setConnectedAddress("walletService", address)

SpecSerial == Init /\ [][NextSerial]_vars

\* The session's life: requests one at a time, the delete notification, and
\* the wallet's getAddresses(topic).
NextSession ==
  \/ \E topic \in Topics, id \in Ids, method \in MethodNames :
       \E params \in FewParamsFor(method) : SessionRequest(1, topic, id, method, params)
  \/ HandlerSettles(1)
  \/ RespondResolves(1)
  \/ SuccessRespondRejects(1)
  \/ ErrorRespondRejects(1)
  \/ \E topic \in Topics : SessionDelete(topic)
  \/ \E address \in {"SP1"} : setConnectedAddress("walletService", address)
  \/ \E topic \in Topics, now \in TimeValues : getAddresses("walletService", topic, now)

SpecSession == Init /\ [][NextSession]_vars

\* The session_proposal callback installed with any callbacks, serving one
\* proposal.
InitProposal ==
  /\ connectedAddress = [w \in WalletIds |-> NULL]
  /\ requests = [i \in Slots |-> IdleRequest]
  /\ directResponse = NoResponse
  /\ deletedTopics = {}
  /\ daoWallet = [wallet |-> "daoWalletService", config |-> AppConfig]
  /\ lastOp = NoOp
  /\ proposal \in {IdleProposal(c) : c \in CallbackChoices}

NextProposal ==
  \/ \E required \in RequiredNamespaces : SessionProposal(required)
  \/ ApproveResolves
  \/ \E isError \in BOOLEAN : ApproveRejects(isError)
  \/ \E address \in {"SP1"} : setConnectedAddress("walletService", address)

SpecProposal == InitProposal /\ [][NextProposal]_vars

\* The governance service, constructed either on the application's wallet
\* service (new DAOGovernanceService(walletService, config)) or by
\* createDAOGovernanceService, which constructs a wallet service of its own.
InitDao ==
  /\ connectedAddress = [w \in WalletIds |-> NULL]
  /\ requests = [i \in Slots |-> IdleRequest]
  /\ directResponse = NoResponse
  /\ deletedTopics = {}
  /\ daoWallet \in {[wallet |-> w, config |-> c] : w \in WalletIds, c \in DaoConfigs}
  /\ lastOp = NoOp
  /\ proposal = IdleProposal(AppCallbacks)

NextDao ==
  \/ \E op \in GovernanceOperations : \E p \in OpParamsFor(op) : Governance(op, p)
  \/ \E address \in Addresses : setConnectedAddress("walletService", address)

SpecDao == InitDao /\ [][NextDao]_vars

\* Session requests and governance operations on the same wallets, with
\* the connected address set in between.
NextWallet ==
  \/ \E method \in MethodNames :
       \E params \in FewParamsFor(method) : SessionRequest(1, "t1", 1, method, params)
  \/ HandlerSettles(1)
  \/ RespondResolves(1)
  \/ SuccessRespondRejects(1)
  \/ ErrorRespondRejects(1)
  \/ \E op \in GovernanceOperations : \E p \in FewOpParamsFor(op) : Governance(op, p)
  \/ \E address \in {"SP1", "ST2"} : setConnectedAddress("walletService", address)

InitWallet ==
  /\ connectedAddress = [w \in WalletIds |-> NULL]
  /\ requests = [i \in Slots |-> IdleRequest]
  /\ directResponse = NoResponse
  /\ deletedTopics = {}
  /\ daoWallet \in {[wallet |-> w, config |-> AppConfig] : w \in WalletIds}
  /\ lastOp = NoOp
  /\ proposal = IdleProposal(AppCallbacks)

SpecWallet == InitWallet /\ [][NextWallet]_vars

\* The example application: initializeApp, then connectWallet on its wallet
\* service and governance operations on its daoService.
SpecApp == Init /\ [][NextDao]_vars

----------------------------------------------------------------------------
\* Properties

Arrived(r) == r.pc # "idle"
Settled(r) == r.pc \in {"awaitSuccessRespond", "awaitErrorRespond", "responded", "rejected"}
Ended(r) == r.pc \in {"responded", "rejected"}
NoSuccessSent(r) == \A k \in 1..Len(r.sent) : r.sent[k].kind # "result"

\* C1: for every request delivered to the session_request callback,
\* respondSessionRequest is invoked exactly once: never twice, and once the
\* callback has ended never zero times.
C1_ExactlyOneResponse ==
  \A i \in Slots :
    /\ Len(requests[i].sent) <= 1
    /\ Ended(requests[i]) => Len(requests[i].sent) = 1

\* C2: every response passed to respondSessionRequest carries the topic and
\* the id of an inbound request: the router's responses those of the request
\* they answer, the response of getAddresses(topic) those of some request
\* received.
C2_ResponsesCarryRequestIds ==
  /\ \A i \in Slots : \A k \in 1..Len(requests[i].sent) :
       /\ requests[i].sent[k].topic = requests[i].topic
       /\ requests[i].sent[k].id = requests[i].id
  /\ directResponse.kind # "none" =>
       \E i \in Slots :
         /\ Arrived(requests[i])
         /\ requests[i].topic = directResponse.topic
         /\ requests[i].id = directResponse.id

\* C3: a request whose method has no entry in the handler table invokes no
\* handler, and is answered with the error response of code -32000 and
\* message "Unsupported method: " followed by the method.
C3_UnregisteredMethodError ==
  \A i \in Slots :
    (Arrived(requests[i]) /\ requests[i].method \notin requestHandlers) =>
      /\ ~requests[i].invoked
      /\ Len(requests[i].sent) >= 1
      /\ \A k \in 1..Len(requests[i].sent) :
           /\ requests[i].sent[k].kind = "error"
           /\ requests[i].sent[k].code = -32000
           /\ requests[i].sent[k].message = <<"Unsupported method: ", requests[i].method>>

\* A registered handler was invoked, it failed, and the callback went on.
HandlerFailed(r) == Settled(r) /\ r.lookup = "own" /\ r.outcome.threw

\* C4 as claimed: when a registered handler throws any value, the router
\* sends an error response with code -32000 whose message is the message of
\* the thrown value, and no success response.
C4_FailureMessagePreserved ==
  \A i \in Slots :
    HandlerFailed(requests[i]) =>
      /\ Len(requests[i].sent) = 1
      /\ requests[i].sent[1].kind = "error"
      /\ requests[i].sent[1].code = -32000
      /\ requests[i].sent[1].message = requests[i].outcome.message

\* C4 as amended: when a registered handler throws, the router sends one
\* error response with code -32000 and no success response; its message is
\* the thrown value's message when that value is an Error, and
\* "Unknown error" when it is not.
C4_FailureMessageOfErrors ==
  \A i \in Slots :
    HandlerFailed(requests[i]) =>
      /\ Len(requests[i].sent) = 1
      /\ requests[i].sent[1].kind = "error"
      /\ requests[i].sent[1].code = -32000
      /\ requests[i].sent[1].message =
           IF requests[i].outcome.isError THEN requests[i].outcome.message
           ELSE <<"Unknown error">>

\* Both cases of C4 answered: an Error and a value that is no Error.
C4_Witness ==
  /\ requests[1].pc = "responded"
  /\ requests[1].method = ExternalMethod
  /\ requests[1].params.outcome = "throwValue"
  /\ requests[1].sent[1].message = <<"Unknown error">>

\* C5: no exception escapes the session_request callback: its promise never
\* rejects, whatever the transport does with a response.
C5_NoUncaughtFailure == \A i \in Slots : requests[i].pc # "rejected"

\* C6: a request arriving for a topic after its session_delete invokes no
\* handler and gets no success response.
C6_NoRequestHonoredAfterDelete ==
  \A i \in Slots :
    requests[i].afterDelete => ~requests[i].invoked /\ NoSuccessSent(requests[i])

\* C7: a governance operation invoked while no address is connected fails
\* with "No wallet connected" for every parameter tuple, and callContract is
\* not invoked.
C7_NoAccountRejected ==
  (lastOp.op \in GovernanceOperations /\ Falsy(lastOp.connected)) =>
    /\ ~lastOp.called
    /\ lastOp.call = NoCall
    /\ lastOp.outcome.threw /\ lastOp.outcome.isError
    /\ lastOp.outcome.message = <<"No wallet connected">>

\* depositToTreasury(-1) with nothing connected was rejected.
C7_Witness ==
  /\ lastOp.op = "depositToTreasury"
  /\ lastOp.params.amountSTX = Num(-1, 0)
  /\ lastOp.connected = NULL
  /\ lastOp.outcome.threw

GuardedMethods ==
  {STACKS_METHODS.TRANSFER_STX, STACKS_METHODS.SIGN_TRANSACTION,
   STACKS_METHODS.SIGN_MESSAGE, STACKS_METHODS.CALL_CONTRACT}

\* C8: with no address connected, the handlers of stx_transferStx,
\* stx_signTransaction, stx_signMessage and stx_callContract fail for every
\* params value; the router calls respondSessionRequest with an error
\* response and never with a success response.
C8_NoAddressNoSuccess ==
  \A i \in Slots :
    (Arrived(requests[i]) /\ requests[i].method \in GuardedMethods
       /\ Falsy(requests[i].connected)) =>
      /\ requests[i].outcome.threw
      /\ NoSuccessSent(requests[i])
      /\ Settled(requests[i]) =>
           Len(requests[i].sent) = 1 /\ requests[i].sent[1].kind = "error"

\* A well-formed stx_signTransaction request answered with an error while
\* nothing was connected.
C8_Witness ==
  /\ requests[1].pc = "responded"
  /\ requests[1].method = STACKS_METHODS.SIGN_TRANSACTION
  /\ requests[1].params.defined
  /\ requests[1].connected = NULL
  /\ requests[1].sent[1].kind = "error"

\* The params name a sender or address other than the connected one.
IdentityMismatch(r) ==
  /\ ~Falsy(r.connected)
  /\ r.params.defined
  /\ \/ r.method = STACKS_METHODS.TRANSFER_STX /\ r.params.sender # r.connected
     \/ r.method = STACKS_METHODS.SIGN_MESSAGE /\ r.params.address # r.connected
     \/ /\ r.method = STACKS_METHODS.CALL_CONTRACT
        /\ r.params.sender # UNDEFINED
        /\ r.params.sender # r.connected

\* C9: a request whose sender or address parameter differs from the
\* connected address fails in its handler and gets no success response.
C9_OnlyConnectedAddressActs ==
  \A i \in Slots :
    (Arrived(requests[i]) /\ IdentityMismatch(requests[i])) =>
      requests[i].outcome.threw /\ NoSuccessSent(requests[i])

\* A contract identifier with no separator, or with an empty address or
\* contract-name segment, read off the characters.
Malformed(c) ==
  \/ \A k \in 1..Len(c) : c[k] # "."
  \/ c[1] = "."
  \/ \E k \in 1..Len(c) :
       /\ c[k] = "." /\ \A j \in 1..(k - 1) : c[j] # "."
       /\ (k = Len(c) \/ c[k + 1] = ".")

\* C10: with an address connected, callContract fails with the
\* malformed-identifier error for every such identifier, and the request
\* gets no transaction result.
C10_MalformedIdentifierRejected ==
  \A i \in Slots :
    (Arrived(requests[i]) /\ requests[i].method = STACKS_METHODS.CALL_CONTRACT
       /\ ~Falsy(requests[i].connected) /\ requests[i].params.defined
       /\ Malformed(requests[i].params.contract)) =>
      /\ requests[i].outcome.threw /\ requests[i].outcome.isError
      /\ requests[i].outcome.message =
           <<"Invalid contract identifier. Expected format: address.contract-name">>
      /\ NoSuccessSent(requests[i])

\* The identifier "a." (empty contract name) was rejected and answered.
C10_Witness ==
  /\ requests[1].pc = "responded"
  /\ requests[1].method = STACKS_METHODS.CALL_CONTRACT
  /\ requests[1].connected = "SP1"
  /\ requests[1].params.contract = <<"a", ".">>
  /\ requests[1].outcome.threw
  /\ requests[1].sent[1].kind = "error"


\* A non-negative integer; an amount that is a whole number of minor units.
IsNaturalNumber(x) == x.e = 0 /\ x.m >= 0
IsWholeMinorUnits(x) == x.m >= 0 /\ x.e <= 6
MinorUnits(x) == x.m * Pow10(6 - x.e)
IsAsciiText(t) == \A k \in 1..Len(t) : t[k] # "U+00E9"

\* Parameters that are valid for the operation: ASCII texts, well-formed
\* addresses of the configured network, non-negative integers, amounts that
\* are whole numbers of minor units.
ValidOpParams(op, p, network) ==
  CASE op = "createProposal" ->
         /\ IsAsciiText(p.title) /\ IsAsciiText(p.description)
         /\ isValidStacksAddress(p.recipient, network)
         /\ IsWholeMinorUnits(p.amountSTX)
    [] op = "vote" -> IsNaturalNumber(p.proposalId)
    [] op \in {"executeProposal", "cancelProposal"} -> IsNaturalNumber(p.proposalId)
    [] op = "depositToTreasury" -> IsWholeMinorUnits(p.amountSTX)
    [] op \in {"addMember", "removeMember"} -> isValidStacksAddress(p.memberAddress, network)
    [] OTHER ->
         isValidStacksAddress(p.memberAddress, network) /\ IsNaturalNumber(p.newPower)

\* The operation table of the specification: function name and ordered
\* argument literals.
TableName(op) ==
  CASE op = "createProposal" -> "create-proposal"
    [] op = "vote" -> "vote"
    [] op = "executeProposal" -> "execute-proposal"
    [] op = "cancelProposal" -> "cancel-proposal"
    [] op = "depositToTreasury" -> "deposit-to-treasury"
    [] op = "addMember" -> "add-member"
    [] op = "removeMember" -> "remove-member"
    [] OTHER -> "update-voting-power"

TableArgs(op, p) ==
  CASE op = "createProposal" ->
         <<<<"\"", p.title, "\"">>, <<"\"", p.description, "\"">>, <<"'", p.recipient>>,
           <<"u">> \o Digits(MinorUnits(p.amountSTX))>>
    [] op = "vote" ->
         <<<<"u">> \o Digits(p.proposalId.m), IF p.support THEN <<"true">> ELSE <<"false">>>>
    [] op \in {"executeProposal", "cancelProposal"} -> <<<<"u">> \o Digits(p.proposalId.m)>>
    [] op = "depositToTreasury" -> <<<<"u">> \o Digits(MinorUnits(p.amountSTX))>>
    [] op \in {"addMember", "removeMember"} -> <<<<"'", p.memberAddress>>>>
    [] OTHER -> <<<<"'", p.memberAddress>>, <<"u">> \o Digits(p.newPower.m)>>

----------------------------------------------------------------------------
\* Session proposals

ProposalSent == proposal.approveCalls > 0

\* C12: for every key of the namespaces passed to approveSession, the
\* accounts list has one entry per requested chain id, in order, and each
\* entry is "<chainId>:<connectedAddress>" with the wallet's connected
\* address at the time of the proposal.
C12_AccountsPairConnectedAddress ==
  (ProposalSent /\ proposal.connected # NULL) =>
    \A key \in DOMAIN proposal.approved :
      LET chains == proposal.required[key].chains.items
      IN  proposal.approved[key].accounts =
            [i \in 1..Len(chains) |-> <<chains[i], ":", proposal.connected>>]

\* C13: for every approved key, the approved methods are the proposal's
\* methods when that list is non-empty and the full method set when it is
\* empty or absent; likewise the events.
C13_EmptyOrAbsentDefaultsToFullSet ==
  ProposalSent =>
    \A key \in DOMAIN proposal.approved :
      LET namespace == proposal.required[key]
      IN  /\ proposal.approved[key].methods =
               IF namespace.methods.present /\ namespace.methods.items # <<>>
               THEN namespace.methods.items ELSE AllMethods
          /\ proposal.approved[key].events =
               IF namespace.events.present /\ namespace.events.items # <<>>
               THEN namespace.events.items ELSE AllEvents

\* A key of the stacks chain family: the family name itself, or the family
\* name followed by ":" and a chain reference.
InStacksFamily(key) == key = StacksKey \/ StartsWith(key, StacksKey \o <<":">>)

\* C14: the keys of the namespaces passed to approveSession are exactly the
\* required-namespace keys of the stacks chain family; a key that only
\* begins with the letters "stacks" is not among them.
C14_OnlyStacksFamilyApproved ==
  ProposalSent =>
    DOMAIN proposal.approved = {key \in DOMAIN proposal.required : InStacksFamily(key)}


ApproveRejected == proposal.approveOutcome \in {"rejectedError", "rejectedValue"}

\* C15: when approveSession rejects, the rejection callback is invoked with
\* the transport error if one was supplied, the error is re-raised if none
\* was supplied, the approval callback is not invoked and the handler does
\* not return normally.
C15_RejectionSurfacedToCallback ==
  ApproveRejected =>
    /\ proposal.callbacks.onReject # "absent" => proposal.onRejectCalls = 1
    /\ proposal.callbacks.onReject = "absent" => proposal.raised = "transportError"
    /\ proposal.onApproveCalls = 0
    /\ proposal.pc = "threw"

\* C15 (amended): when approveSession rejects, the handler always ends by
\* throwing: the rejected value itself, or what the rejection callback
\* throws. The rejection callback is invoked once when it was supplied and
\* the rejected value is an Error, and not at all otherwise. The approval
\* callback is not invoked and the handler does not return normally.
C15_RejectionAlwaysRaised ==
  ApproveRejected =>
    LET calls == proposal.callbacks.onReject # "absent"
                   /\ proposal.approveOutcome = "rejectedError"
    IN  /\ proposal.onRejectCalls = IF calls THEN 1 ELSE 0
        /\ proposal.raised = IF calls /\ proposal.callbacks.onReject = "throws"
                             THEN "onRejectError" ELSE "transportError"
        /\ proposal.onApproveCalls = 0
        /\ proposal.pc = "threw"

\* approveSession rejected with a value that is not an Error while a
\* rejection callback was supplied: the callback was skipped and the value
\* re-raised.
C15_Witness ==
  /\ proposal.approveOutcome = "rejectedValue"
  /\ proposal.callbacks.onReject = "returns"
  /\ proposal.callbacks.onApprove = "returns"
  /\ proposal.onRejectCalls = 0
  /\ proposal.raised = "transportError"


----------------------------------------------------------------------------
\* The application's wiring

\* C16: after initializeApp and connectWallet(walletService, a), every
\* governance operation on the daoService sees a as the connected address;
\* createProposal with amount 100 does not fail for want of an account and
\* builds a create-proposal call whose last argument is "u100000000".
C16_DaoServiceSeesConnectedAddress ==
  (lastOp.op # NoOp.op /\ ~Falsy(lastOp.appConnected)) =>
    /\ lastOp.connected = lastOp.appConnected
    /\ (lastOp.op = "createProposal" /\ lastOp.params.amountSTX = Num(100, 0)) =>
         /\ lastOp.outcome # NoWalletConnected.outcome
         /\ lastOp.called
         /\ lastOp.call.functionName = "create-proposal"
         /\ lastOp.call.functionArgs[4] = <<"u", "1", "0", "0", "0", "0", "0", "0", "0", "0">>


----------------------------------------------------------------------------
\* Encoding preconditions of the governance operations

OperationDone == lastOp.op # NoOp.op
FailedWithoutCall == ~lastOp.called /\ lastOp.outcome.threw

DigitChars == {DigitChar(d) : d \in 0..9}

\* "u" followed by at least one decimal digit and nothing else.
IsUintLiteral(arg) ==
  /\ Len(arg) >= 2
  /\ arg[1] = "u"
  /\ \A k \in 2..Len(arg) : arg[k] \in DigitChars

\* The operation's numeric parameters are non-negative integers; an amount
\* is a non-negative whole number of minor units.
NumbersEncodable(op, p) ==
  CASE op \in {"createProposal", "depositToTreasury"} -> IsWholeMinorUnits(p.amountSTX)
    [] op \in {"vote", "executeProposal", "cancelProposal"} -> IsNaturalNumber(p.proposalId)
    [] op = "updateVotingPower" -> IsNaturalNumber(p.newPower)
    [] OTHER -> TRUE

\* C17: every uint argument of a built call is "u" followed by the decimal
\* digits of a non-negative integer, and an operation given a negative or
\* non-integral number fails without building a call.
C17_UintArgumentsAreNaturals ==
  OperationDone =>
    /\ lastOp.called =>
         \A i \in DOMAIN lastOp.call.functionArgs :
           lastOp.call.functionArgs[i][1] = "u" => IsUintLiteral(lastOp.call.functionArgs[i])
    /\ ~NumbersEncodable(lastOp.op, lastOp.params) => FailedWithoutCall

\* floor(x * 1000000) of a non-negative x
FloorMinorUnits(x) ==
  IF x.e <= 6 THEN x.m * Pow10(6 - x.e) ELSE x.m \div Pow10(x.e - 6)

\* C18: the amount argument that createProposal and depositToTreasury
\* encode is "u" followed by floor(x * 1000000), an integer obtained by
\* truncation when x has digits below the minor unit.
C18_MinorUnitsAreTruncated ==
  (/\ lastOp.op \in {"createProposal", "depositToTreasury"}
   /\ lastOp.called
   /\ lastOp.params.amountSTX.m >= 0) =>
    LET args == lastOp.call.functionArgs
    IN  args[Len(args)] = <<"u">> \o Digits(FloorMinorUnits(lastOp.params.amountSTX))

\* C19: createProposal fails without building a call when its title or
\* description holds a non-ASCII character, so the text arguments of a
\* built call are the original ASCII texts in double quotes.
C19_NonAsciiTextRejected ==
  lastOp.op = "createProposal" =>
    /\ ~(IsAsciiText(lastOp.params.title) /\ IsAsciiText(lastOp.params.description)) =>
         FailedWithoutCall
    /\ lastOp.called =>
         /\ lastOp.call.functionArgs[1] = <<"\"", lastOp.params.title, "\"">>
         /\ lastOp.call.functionArgs[2] = <<"\"", lastOp.params.description, "\"">>
         /\ IsAsciiText(lastOp.params.title)
         /\ IsAsciiText(lastOp.params.description)

\* The address-shaped parameter of the operation.
AddressParam(op, p) == IF op = "createProposal" THEN p.recipient ELSE p.memberAddress

\* C20: an operation with an address-shaped parameter fails without
\* building a call when that address is not valid for the configured
\* network (two-letter prefix of the network, 41 characters).
C20_InvalidAddressRejected ==
  (/\ lastOp.op \in {"createProposal", "addMember", "removeMember", "updateVotingPower"}
   /\ ~isValidStacksAddress(AddressParam(lastOp.op, lastOp.params), daoWallet.config.network)) =>
    FailedWithoutCall


----------------------------------------------------------------------------
\* The call builder as a function of its inputs

----------------------------------------------------------------------------
\* Writers of the connected address

\* C22: a step that changes a wallet's connected address is a
\* setConnectedAddress call; no step of a session request and no
\* governance operation changes it.
C22_OnlySetConnectedAddressWrites ==
  [][connectedAddress' # connectedAddress =>
       \E w \in WalletIds, address \in Addresses : setConnectedAddress(w, address)]_vars

\* With "SP1" connected, a session request was answered with a success
\* response after a governance operation built a call, and the connected
\* address is still "SP1".
C22_Witness ==
  /\ connectedAddress["walletService"] = "SP1"
  /\ requests[1].pc = "responded"
  /\ requests[1].connected = "SP1"
  /\ \E k \in DOMAIN requests[1].sent : requests[1].sent[k].kind = "result"
  /\ lastOp.called
  /\ lastOp.connected = "SP1"


----------------------------------------------------------------------------
\* Contract identifiers of more than two segments

\* The number of separators in an identifier.
Separators(c) == Cardinality({k \in 1..Len(c) : c[k] = "."})

\* C23: with an address connected, callContract rejects an identifier that
\* holds more than one "." with the malformed-identifier error, and the
\* request gets no transaction result.
C23_ExtraSegmentRejected ==
  \A i \in Slots :
    (Arrived(requests[i]) /\ requests[i].method = STACKS_METHODS.CALL_CONTRACT
       /\ ~Falsy(requests[i].connected) /\ requests[i].params.defined
       /\ Separators(requests[i].params.contract) > 1) =>
      /\ requests[i].outcome.threw /\ requests[i].outcome.isError
      /\ requests[i].outcome.message =
           <<"Invalid contract identifier. Expected format: address.contract-name">>
      /\ NoSuccessSent(requests[i])


----------------------------------------------------------------------------
\* Call descriptors of the governance operations

\* C24: every descriptor a governance operation hands to callContract has
\* the address connected when the operation was invoked as sender, the
\* configured "<contractAddress>.<contractName>" as contract and the
\* configured network as network.
C24_DescriptorCarriesSenderContractNetwork ==
  lastOp.called =>
    /\ lastOp.call.sender = lastOp.connected
    /\ ~Falsy(lastOp.call.sender)
    /\ lastOp.call.contract =
         daoWallet.config.contractAddress \o <<".">> \o daoWallet.config.contractName
    /\ lastOp.call.network = daoWallet.config.network

\* After the connected address was set to "ST2", an operation built a
\* call for the contract a.a on testnet with sender "ST2".
C24_Witness ==
  /\ lastOp.called
  /\ connectedAddress[daoWallet.wallet] = "ST2"
  /\ lastOp.call.sender = "ST2"
  /\ lastOp.call.contract = <<"a", ".", "a">>
  /\ lastOp.call.network = "testnet"
  /\ lastOp.op = "addMember"


----------------------------------------------------------------------------
\* Methods granted by default and the handler table

DefaultMethods == {AllMethods[k] : k \in DOMAIN AllMethods}

\* C25: every method of the set granted by default has a handler in the
\* table of createRequestHandlers, and a request for such a method is
\* never answered with "Unsupported method".
C25_DefaultMethodsHaveHandlers ==
  \A i \in Slots :
    (Arrived(requests[i]) /\ requests[i].method \in DefaultMethods) =>
      /\ requests[i].method \in createRequestHandlers
      /\ requests[i].lookup = "own"
      /\ \A k \in 1..Len(requests[i].sent) :
           requests[i].sent[k].message # <<"Unsupported method: ", requests[i].method>>


----------------------------------------------------------------------------
\* Callbacks of the session proposal handler

\* C26: for a session proposal, approveSession is called exactly once; the
\* approval callback is invoked only after approveSession succeeded, the
\* rejection callback only if approveSession failed, and never both.
C26_CallbacksMutuallyExclusive ==
  ProposalSent =>
    /\ proposal.approveCalls = 1
    /\ proposal.onApproveCalls > 0 => proposal.approveOutcome = "resolved"
    /\ proposal.onRejectCalls > 0 => ApproveRejected
    /\ ~(proposal.onApproveCalls > 0 /\ proposal.onRejectCalls > 0)

====
